---- MODULE Spec2Model ----
(***************************************************************************)
(* A model of cog's task executor: the Task lifecycle of src/cog/task.py   *)
(* (start / run / finish against the CouchDB job document) and the         *)
(* character checker of src/cog/tasks/chartest.py (CharCheck.run,          *)
(* check_changed_files, check_file).                                       *)
(*                                                                         *)
(* Python values are modelled as follows.  A dict is a function whose      *)
(* DOMAIN is the set of keys present ("k in d" is k \in DOMAIN d).  None   *)
(* is the string None for string-valued things and NoneCode for process    *)
(* exit codes.  Text handled character by character (a diff, a file path)  *)
(* is a sequence of character codes.                                       *)
(***************************************************************************)
EXTENDS Integers, Sequences, FiniteSets, TLC

\* ------------------------------------------------------------------ bounds
MaxCalls == 2          \* executions of one Task instance (task())
MaxAttachments == 2    \* attachments in the result of an overriding task body
MaxChecks == 4         \* calls of check_file in a row
MaxFiles == 2          \* changed files of a revision

\* ------------------------------------------------------------ Python values
None == "None"
NoneCode == -1

\* bool(v) of a kwargs value: None and the empty string are false
Truthy(v) == v # None /\ v # ""

\* dict.get(key, None)
Get(d, key) == IF key \in DOMAIN d THEN d[key] ELSE None

\* d[key] = value on a dict
Put(d, key, value) == [k \in DOMAIN d \cup {key} |-> IF k = key THEN value ELSE d[k]]

\* del d[key]
Del(d, key) == [k \in DOMAIN d \ {key} |-> d[k]]

\* str(code) of an exit code or None
PyStr(code) == IF code = NoneCode THEN "None" ELSE ToString(code)

\* ------------------------------------------------------- character codes
TAB == 9
NL == 10
CR == 13
SPACE == 32
PLUS == 43
COMMA == 44
MINUS == 45
ZERO == 48
AT == 64

\* "\ No newline at end of file"
EOF_MARKER ==
    <<92, 32, 78, 111, 32, 110, 101, 119, 108, 105, 110, 101, 32, 97, 116, 32,
      101, 110, 100, 32, 111, 102, 32, 102, 105, 108, 101>>

\* CRITICAL_CHARS = map(chr, range(0x00,0x09+1) + range(0x0b,0x1f+1) + [0x7f]),
\* in the order of the list
CRITICAL_CHARS == [i \in 1..32 |-> IF i <= 10 THEN i - 1 ELSE IF i <= 31 THEN i ELSE 127]

\* the characters str.rstrip() and int() strip: " \t\n\r\x0b\x0c"
WHITESPACE == {32, 9, 10, 13, 11, 12}

\* ----------------------------------------------------- Python str methods
\* sub in text
Contains(text, sub) ==
    \E i \in 1..(Len(text) - Len(sub) + 1) : SubSeq(text, i, i + Len(sub) - 1) = sub

\* the least element of a non-empty set of numbers
Least(S) == CHOOSE n \in S : \A m \in S : n <= m

\* text.find(sub): the index of the first occurrence of sub in text, 0 if none
Find(text, sub) ==
    LET at == {i \in 1..(Len(text) - Len(sub) + 1) : SubSeq(text, i, i + Len(sub) - 1) = sub}
    IN IF at = {} THEN 0 ELSE Least(at)

\* text.split(sep): the list of the pieces between the occurrences of sep
RECURSIVE Split(_, _)
Split(text, sep) ==
    LET at == Find(text, sep)
    IN IF at = 0 THEN <<text>>
       ELSE <<SubSeq(text, 1, at - 1)>> \o Split(SubSeq(text, at + Len(sep), Len(text)), sep)

\* str.splitlines() of a byte string: lines end at "\n", "\r" or "\r\n", the
\* terminators are dropped, and a terminator at the end opens no further line
RECURSIVE SplitLinesFrom(_, _)
SplitLinesFrom(text, i) ==
    IF i > Len(text) THEN <<>>
    ELSE LET ends == {j \in i..Len(text) : text[j] = NL \/ text[j] = CR}
         IN IF ends = {} THEN <<SubSeq(text, i, Len(text))>>
            ELSE LET j == Least(ends)
                     next == IF text[j] = CR /\ j < Len(text) /\ text[j + 1] = NL
                             THEN j + 2 ELSE j + 1
                 IN <<SubSeq(text, i, j - 1)>> \o SplitLinesFrom(text, next)

splitlines(text) == SplitLinesFrom(text, 1)

\* line[:n]
Prefix(line, n) == SubSeq(line, 1, IF Len(line) < n THEN Len(line) ELSE n)

\* line.rstrip()
RECURSIVE rstrip(_)
rstrip(line) ==
    IF line # <<>> /\ line[Len(line)] \in WHITESPACE
    THEN rstrip(SubSeq(line, 1, Len(line) - 1))
    ELSE line

RECURSIVE lstrip(_)
lstrip(line) ==
    IF line # <<>> /\ line[1] \in WHITESPACE THEN lstrip(Tail(line)) ELSE line

\* line.count(y) for a character y
count(line, y) == Cardinality({i \in 1..Len(line) : line[i] = y})

\* the value of a string of decimal digits
RECURSIVE DigitsValue(_, _)
DigitsValue(digits, acc) ==
    IF digits = <<>> THEN acc
    ELSE DigitsValue(Tail(digits), 10 * acc + (digits[1] - ZERO))

\* int(text): surrounding whitespace is stripped, a sign is allowed, the rest
\* must be one or more decimal digits; ok is FALSE where int() raises ValueError
PyInt(text) ==
    LET s == rstrip(lstrip(text))
        signed == s # <<>> /\ s[1] \in {PLUS, MINUS}
        digits == IF signed THEN Tail(s) ELSE s
        ok == digits # <<>> /\ \A i \in 1..Len(digits) : digits[i] \in ZERO..(ZERO + 9)
    IN [ok |-> ok,
        val |-> IF ~ok THEN 0
                ELSE IF signed /\ s[1] = MINUS THEN 0 - DigitsValue(digits, 0)
                ELSE DigitsValue(digits, 0)]

HEXDIGITS == <<"0", "1", "2", "3", "4", "5", "6", "7", "8", "9", "a", "b", "c", "d", "e", "f">>

RECURSIVE HexDigitsOf(_)
HexDigitsOf(n) ==
    IF n < 16 THEN HEXDIGITS[n + 1] ELSE HexDigitsOf(n \div 16) \o HEXDIGITS[(n % 16) + 1]

\* hex(ord(y))
hex(n) == "0x" \o HexDigitsOf(n)

\* --------------------------------------------------------------- check_file
\* the list CRITICAL_CHARS of the module chartest, which check_file reads
\* when it is called
VARIABLE critical_chars

\* line_number = -999, the value before the first hunk header and after a
\* header that could not be interpreted
UNKNOWN_LINE == -999

\* the try block of check_file on a line that starts with "@@": the new-file
\* start line of the hunk header, UNKNOWN_LINE where the block raises
\* (no "+" in the line: IndexError; not a number: ValueError)
hunk_line_number(line) ==
    LET pieces == Split(line, <<PLUS>>)
    IN IF Len(pieces) < 2 THEN UNKNOWN_LINE
       ELSE LET line_context == Split(pieces[2], <<AT, AT>>)[1]
                number == IF Contains(line_context, <<COMMA>>)
                          THEN Split(line_context, <<COMMA>>)[1]
                          ELSE line_context
                parsed == PyInt(number)
            IN IF parsed.ok THEN parsed.val ELSE UNKNOWN_LINE

\* the line is passed over by "look for new lines": it is empty, does not
\* start with "+", or starts with "+++"
skipped(line) ==
    Len(line) = 0 \/ line[1] # PLUS \/ Prefix(line, 3) = <<PLUS, PLUS, PLUS>>

\* the loop of check_file over the lines: the lines it goes on to check, each
\* with the value of line_number it is checked under
RECURSIVE scan(_, _, _)
scan(lines, i, line_number) ==
    IF i > Len(lines) THEN <<>>
    ELSE LET line == lines[i]
             n == IF Prefix(line, 2) = <<AT, AT>> THEN hunk_line_number(line)
                  ELSE line_number
         IN IF skipped(line) THEN scan(lines, i + 1, n)
            ELSE <<[line_number |-> n, line |-> line]>> \o scan(lines, i + 1, n + 1)

\* the trailing-whitespace error of a checked line (none: the empty list).
\* An error is the tuple of values the format string is filled with.
trailing_error(rec) ==
    LET trailing_white_space == Len(rec.line) - Len(rstrip(rec.line))
    IN IF trailing_white_space # 0
       THEN <<[rule |-> "trailing whitespace",
               count |-> trailing_white_space,
               noun |-> IF trailing_white_space > 1 THEN "chars" ELSE "char",
               line_number |-> rec.line_number,
               line |-> rec.line]>>
       ELSE <<>>

\* the errors of a checked line for CRITICAL_CHARS[k..], the list of the
\* module as it is when check_file runs
RECURSIVE char_errors(_, _)
char_errors(rec, k) ==
    IF k > Len(critical_chars) THEN <<>>
    ELSE LET y == critical_chars[k]
             copies == count(rec.line, y)
         IN (IF copies # 0
             THEN <<[rule |-> "copies of char",
                     count |-> copies,
                     char |-> hex(y),
                     line_number |-> rec.line_number,
                     line |-> rec.line,
                     new_tabs |-> (y = TAB)]>>
             ELSE <<>>) \o char_errors(rec, k + 1)

line_errors(rec) == trailing_error(rec) \o char_errors(rec, 1)

RECURSIVE errors_of(_)
errors_of(recs) ==
    IF recs = <<>> THEN <<>> ELSE line_errors(recs[1]) \o errors_of(Tail(recs))

eof_error_per_marker(diff) ==
    LET at == {i \in 1..Len(diff) :
                  i + Len(EOF_MARKER) - 1 <= Len(diff)
                  /\ SubSeq(diff, i, i + Len(EOF_MARKER) - 1) = EOF_MARKER}
    IN [i \in 1..Cardinality(at) |-> [rule |-> "No EOF newline"]]

\* the "No EOF newline" error, when the marker is anywhere in the diff
eof_error(diff) ==
    IF Contains(diff, EOF_MARKER) THEN <<[rule |-> "No EOF newline"]>> ELSE <<>>

\* the lines check_file checks
checked_lines(diff) == scan(splitlines(diff), 1, UNKNOWN_LINE)

check_file(diff) == eof_error(diff) \o errors_of(checked_lines(diff))

critical_chars_without_reported(chars, errs) ==
    LET reported(y) == \E i \in 1..Len(errs) :
                          errs[i].rule = "copies of char" /\ errs[i].char = hex(y)
        kept(y) == ~reported(y)
    IN SelectSeq(chars, kept)

\* the list CRITICAL_CHARS after a call of check_file that returned errs:
\* check_file only iterates over the list ("for y in CRITICAL_CHARS") and
\* builds errors in a list of its own
critical_chars_after(chars, errs) == chars

\* ------------------------------------------------------------ unified diffs
\* The diffs handed to check_file are "git diff -U0 ...sha file" output
\* (get_diff).  A diff is built from items: a hunk start, then the lines of
\* the hunk.  gap is the number of unchanged lines of the file before the hunk
\* (counted from the end of the hunk before it).
MaxItems == 4          \* items (hunk headers and lines) of a generated diff

\* line contents: "x", "x  ", "f<TAB>", "<TAB>a<TAB>b", "++i<TAB>", "x<CR>",
\* "<0x01><0x7f><0x01>", and the text of the marker itself
Clean == <<120>>
AddContents ==
    {Clean, <<120, 32, 32>>, <<102, 9>>, <<9, 97, 9, 98>>, <<43, 43, 105, 9>>,
     <<120, 13>>, <<1, 127, 1>>, EOF_MARKER}
\* contents of lines of the old file: "f<TAB>", "a<CR>+b "
OldContents == {<<102, 9>>, <<97, 13, 43, 98, 32>>}

\* the hunk headers that are not of the form "@@ -a,b +c,d @@": without a
\* new-file range ("@@ -a,b @@"), with a range that is no number
\* ("@@ -a,b +x,2 @@"), without a new-file range and with "i+3" as the text
\* after the second "@@" ("@@ -a,b @@ i+3")
BadForms == {"missing", "nonnumeric", "missing, plus in text"}

Items ==
    [k : {"hunk"}, gap : {1, 9}]
    \cup [k : {"badhunk"}, form : BadForms]
    \cup [k : {"add"}, c : AddContents]
    \cup [k : {"del"}, c : OldContents]
    \cup [k : {"ctx"}, c : {<<102, 9>>}]
    \cup [k : {"noeol"}]

IsLine(item) == item.k \in {"add", "del", "ctx"}
IsHeader(item) == item.k \in {"hunk", "badhunk"}

\* item may follow the items of d in a unified diff: a diff starts with a
\* hunk header, a header is followed by a line, the deleted lines of a change
\* come before its added lines, the "\ No newline at end of file" line
\* follows a line, and after it come at most the added lines that replace a
\* deleted last line
MayFollow(d, item) ==
    IF d = <<>> THEN IsHeader(item)
    ELSE LET last == d[Len(d)]
         IN IF last.k = "noeol"
            THEN item.k = "add" /\ d[Len(d) - 1].k = "del"
            ELSE IF IsHeader(item) THEN ~IsHeader(last)
            ELSE IF item.k = "noeol" THEN IsLine(last)
            ELSE IF item.k = "del" THEN last.k # "add"
            ELSE TRUE

\* a diff is complete when no hunk is left without lines
Complete(d) == IF d = <<>> THEN TRUE ELSE ~IsHeader(d[Len(d)])

\* the number of lines of hunk h on the old (side = "del") or new ("add") side
RECURSIVE SideCount(_, _, _)
SideCount(d, i, side) ==
    IF i > Len(d) \/ IsHeader(d[i]) THEN 0
    ELSE (IF d[i].k \in {side, "ctx"} THEN 1 ELSE 0) + SideCount(d, i + 1, side)

\* the decimal digits of n >= 0
RECURSIVE Dec(_)
Dec(n) == IF n < 10 THEN <<ZERO + n>> ELSE Dec(n \div 10) \o <<ZERO + (n % 10)>>

\* a range of a hunk header as git writes it: "start" for one line,
\* "start,count" otherwise, where an empty range names the line before it
Range(start, n) ==
    IF n = 1 THEN Dec(start)
    ELSE IF n = 0 THEN Dec(start - 1) \o <<COMMA, ZERO>>
    ELSE Dec(start) \o <<COMMA>> \o Dec(n)

\* the first line of hunk number h (h = 0: the first hunk) on a side, given
\* the next unassigned line of that side
HunkStart(next, gap, first) == IF first THEN next + gap - 1 ELSE next + gap

\* the text of the items d[i..], where old and new are the next line numbers of
\* the two files not yet covered by a hunk
RECURSIVE RenderFrom(_, _, _, _)
RenderFrom(d, i, old, new) ==
    IF i > Len(d) THEN <<>>
    ELSE LET item == d[i]
         IN CASE item.k = "hunk" ->
                   LET olds == SideCount(d, i + 1, "del")
                       news == SideCount(d, i + 1, "add")
                       o == HunkStart(old, item.gap, i = 1)
                       n == HunkStart(new, item.gap, i = 1)
                   IN <<AT, AT, SPACE, MINUS>> \o Range(o, olds) \o <<SPACE, PLUS>>
                      \o Range(n, news) \o <<SPACE, AT, AT, NL>>
                      \o RenderFrom(d, i + 1, o + olds, n + news)
              [] item.k = "badhunk" ->
                   \* a hunk right after the lines before it, its header garbled
                   LET olds == SideCount(d, i + 1, "del")
                       news == SideCount(d, i + 1, "add")
                       o == HunkStart(old, 1, i = 1)
                       n == HunkStart(new, 1, i = 1)
                       tail == CASE item.form = "missing" -> <<SPACE, AT, AT, NL>>
                                 [] item.form = "nonnumeric" ->
                                       <<SPACE, PLUS, 120, COMMA, 50, SPACE, AT, AT, NL>>
                                 [] OTHER -> <<SPACE, AT, AT, SPACE, 105, PLUS, 51, NL>>
                   IN <<AT, AT, SPACE, MINUS>> \o Range(o, olds) \o tail
                      \o RenderFrom(d, i + 1, o + olds, n + news)
              [] item.k = "add" -> <<PLUS>> \o item.c \o <<NL>> \o RenderFrom(d, i + 1, old, new)
              [] item.k = "del" -> <<MINUS>> \o item.c \o <<NL>> \o RenderFrom(d, i + 1, old, new)
              [] item.k = "ctx" -> <<SPACE>> \o item.c \o <<NL>> \o RenderFrom(d, i + 1, old, new)
              [] OTHER -> EOF_MARKER \o <<NL>> \o RenderFrom(d, i + 1, old, new)

\* "diff --git a/f.c b/f.c", "--- a/f.c", "+++ b/f.c"
FILE_HEADER ==
    <<100, 105, 102, 102, 32, 45, 45, 103, 105, 116, 32, 97, 47, 102, 46, 99, 32,
      98, 47, 102, 46, 99, 10,
      45, 45, 45, 32, 97, 47, 102, 46, 99, 10,
      43, 43, 43, 32, 98, 47, 102, 46, 99, 10>>

\* the diff text git prints for the items (nothing for an unchanged file)
Render(d) == IF d = <<>> THEN <<>> ELSE FILE_HEADER \o RenderFrom(d, 1, 1, 1)

\* the added lines of the diff with their line numbers in the new file, as the
\* hunk headers declare them
RECURSIVE AddedFrom(_, _, _)
AddedFrom(d, i, new) ==
    IF i > Len(d) THEN <<>>
    ELSE LET item == d[i]
         IN CASE item.k = "hunk" -> AddedFrom(d, i + 1, HunkStart(new, item.gap, i = 1))
              [] item.k = "badhunk" -> AddedFrom(d, i + 1, HunkStart(new, 1, i = 1))
              [] item.k = "add" ->
                   <<[line_number |-> new, line |-> <<PLUS>> \o item.c]>>
                   \o AddedFrom(d, i + 1, new + 1)
              [] item.k = "ctx" -> AddedFrom(d, i + 1, new + 1)
              [] OTHER -> AddedFrom(d, i + 1, new)

Added(d) == AddedFrom(d, 1, 1)

\* ------------------------------------------------- external steps of a task
\* The outcome of a call: a returned value or a raised exception (its str()),
\* with the external commands the call ran, in order.
Return(value, ext) == [raised |-> FALSE, value |-> value, ext |-> ext]
Raise(text, ext) == [raised |-> TRUE, value |-> [exception |-> text], ext |-> ext]

\* the exit codes a shell command is given in the model
ExitCodes == {0, 1, 2, 128}

\* git_clone(url, sha, target, work_dir) with work_dir the task's temporary
\* directory; exists: the directory work_dir/target is there; code: the exit
\* code of the shell command, if it is run.  os.path.join(work_dir, None)
\* raises, and the join of the command raises for a url of None.
git_clone(url, sha, target, exists, code) ==
    LET target1 == IF target = None THEN sha ELSE target
    IN IF target1 = None
       THEN Raise("'NoneType' object has no attribute 'startswith'", <<>>)
       ELSE IF ~(target1 = "" \/ exists)
       THEN (IF url = None
             THEN Raise("sequence item 1: expected string, NoneType found", <<>>)
             ELSE Return(code, <<"git clone">>))
       ELSE Return(NoneCode, <<>>)

\* git_fetch(url, repo_dir): the exit code of "git remote add" is dropped
git_fetch(url, code) == Return(code, <<"git remote add", "git fetch">>)

\* CODE_EXTS = [".py", ".cc", ".hh", ".h", ".c"]
CODE_EXTS == {<<46, 112, 121>>, <<46, 99, 99>>, <<46, 104, 104>>, <<46, 104>>, <<46, 99>>}

\* path.endswith(tuple(exts))
endswith(path, exts) ==
    \E e \in exts : Len(e) <= Len(path) /\ SubSeq(path, Len(path) - Len(e) + 1, Len(path)) = e

code_files_unfiltered(files, i) == SubSeq(files, i, Len(files))

\* [f for f in files if f.endswith(tuple(CODE_EXTS))] on files[i..]
RECURSIVE code_files(_, _)
code_files(files, i) ==
    IF i > Len(files) THEN <<>>
    ELSE (IF endswith(files[i].path, CODE_EXTS) THEN <<files[i]>> ELSE <<>>)
         \o code_files(files, i + 1)

\* get_diff(file, sha, repo_dir): a file that is not there yet is checked out
\* first.  The commands of the diffs of files[i..].
RECURSIVE diff_commands(_, _)
diff_commands(files, i) ==
    IF i > Len(files) THEN <<>>
    ELSE (IF files[i].isfile THEN <<"git diff">> ELSE <<"git checkout", "git diff">>)
         \o diff_commands(files, i + 1)

\* check_changed_files(sha, repo_dir).  changed: the changed files git names,
\* each with its path, whether os.path.isfile(path) holds, and the diff git
\* prints for it; names_ok, diffs_ok: the git commands end with exit code 0
\* (system_output raises CalledProcessError otherwise).
check_changed_files(changed, names_ok, diffs_ok) ==
    IF ~names_ok
    THEN Raise("Command 'git diff --name-only' returned non-zero exit status 128",
               <<"git diff --name-only">>)
    ELSE LET changed_code_files == code_files(changed, 1)
             ext == <<"git diff --name-only">> \o diff_commands(changed_code_files, 1)
             paths == {changed_code_files[i].path : i \in 1..Len(changed_code_files)}
             diff_of(path) ==
                 LET i == CHOOSE j \in 1..Len(changed_code_files) :
                              changed_code_files[j].path = path
                 IN changed_code_files[i].diff
             errors == [path \in paths |-> check_file(diff_of(path))]
         IN IF changed_code_files # <<>> /\ ~diffs_ok
            THEN Raise("Command 'git diff -U0' returned non-zero exit status 128",
                       <<"git diff --name-only", "git diff">>)
            ELSE Return([success |-> \A path \in paths : errors[path] = <<>>,
                         errors |-> errors], ext)

step_failed_unless_zero(code) == code = NoneCode \/ code # 0

\* "code is None or (code != 0 and code != 1)" after the clone and the fetch
step_failed(code) == code = NoneCode \/ (code # 0 /\ code # 1)

\* CharCheck.run(document, work_dir).  The names of the parameters after
\* document are those of the external outcomes: target_exists (the clone
\* target is in work_dir), clone_code, fetch_code (exit codes), changed,
\* names_ok, diffs_ok (see check_changed_files).
CharCheck_run(document, target_exists, clone_code, fetch_code, changed, names_ok, diffs_ok) ==
    LET kwargs == IF "kwargs" \in DOMAIN document THEN document.kwargs ELSE [k \in {} |-> None]
        sha == Get(kwargs, "sha")
        git_url == Get(kwargs, "git_url")
        base_repo_ref == Get(kwargs, "base_repo_ref")
        base_repo_url == Get(kwargs, "base_repo_url")
    IN IF sha = None THEN Return([success |-> FALSE, reason |-> "missing revision id"], <<>>)
       ELSE IF git_url = None THEN Return([success |-> FALSE, reason |-> "missing git url"], <<>>)
       ELSE IF (Truthy(base_repo_url) /\ base_repo_ref = None)
               \/ (Truthy(base_repo_ref) /\ base_repo_url = None)
       THEN Return([success |-> FALSE, reason |-> "incomplete base specification for merge"], <<>>)
       ELSE
       LET clone == git_clone(base_repo_url, base_repo_ref, base_repo_ref, target_exists, clone_code)
       IN IF clone.raised THEN clone
          ELSE IF step_failed(clone.value)
          THEN Return([success |-> FALSE, reason |-> "git clone failed",
                       code |-> PyStr(clone.value)], clone.ext)
          ELSE
          LET fetch == git_fetch(git_url, fetch_code)
              ext2 == clone.ext \o fetch.ext
          IN IF step_failed(fetch.value)
             THEN Return([success |-> FALSE, reason |-> "git clone failed",
                          code |-> PyStr(fetch.value)], ext2)
             ELSE
             LET checked == check_changed_files(changed, names_ok, diffs_ok)
             IN IF checked.raised THEN Raise(checked.value.exception, ext2 \o checked.ext)
                \* "sucsess, errors = check_changed_files(...)" binds sucsess;
                \* the dict display of the results reads success, which is
                \* bound nowhere: NameError
                ELSE Raise("global name 'success' is not defined",
                           ext2 \o checked.ext \o <<"write char_test.html">>)

\* Task.run of the base class
Task_run == Raise("Task.run: Cannot call run method on base class", <<>>)

unhandled_without_text(text) == [success |-> FALSE, reason |-> "Unhandled exception in task"]

\* the results of the except clause of Task.__call__ for an exception e of
\* run, text being str(e)
unhandled(text) == [success |-> FALSE, reason |-> "Unhandled exception in task: " \o text]

\* --------------------------------------------------------- the job document
\* kwargs of the job document: a key is present when its value is not None
MkKwargs(sha, git_url, ref, url) ==
    LET all == [sha |-> sha, git_url |-> git_url, base_repo_ref |-> ref, base_repo_url |-> url]
    IN [k \in {k \in DOMAIN all : all[k] # None} |-> all[k]]

KwargsSet ==
    {MkKwargs(sha, git_url, ref, url) :
        sha \in {None, "sha1"}, git_url \in {None, "git://fork"},
        ref \in {None, "", "master"}, url \in {None, "", "git://base"}}

\* the job document as whatever enqueues jobs created it
NewDocument(kwargs) == [_id |-> "job", _rev |-> 1, kwargs |-> kwargs]

\* ------------------------------------------------------------------- state
VARIABLES
    task,           \* the class of the task: "Task", "CharCheck" or "Override"
    store,          \* the job document in the document store
    document,       \* self.document, the worker's copy
    results,        \* the results dict of __call__ and finish (one object)
    outcome,        \* what run did in this execution
    env,            \* the outcomes of the external commands of this run
    target_exists,  \* the clone target is in self.work_dir
    pc,             \* where the worker is
    att_i,          \* the attachment the upload loop of finish is at
    clock,          \* time.time()
    calls,          \* completed executions of the task
    oplog,          \* the store operations of this execution, in order
    items,          \* check_file alone: the diff, as items
    cpc,            \* check_file alone: "build", "checked", or "off"
    records,        \* check_file alone: the lines it checked
    errors,         \* check_file alone: the list it returned
    returned,       \* repeated calls of check_file: the calls so far, in order
    changed_files,  \* check_changed_files alone: the files "git diff --name-only" lists
    checked,        \* check_changed_files alone: the outcome of the call
    work_dir,       \* self.work_dir: "allocated", "removed", or "kept" (rmtree failed)
    printed         \* what __del__ printed, in order

task_vars == <<task, store, document, results, outcome, env, target_exists, pc,
               att_i, clock, calls, oplog>>
check_vars == <<items, cpc, records, errors, critical_chars, returned, changed_files,
                checked>>
vars == <<task, store, document, results, outcome, env, target_exists, pc,
          att_i, clock, calls, oplog, items, cpc, records, errors, critical_chars,
          returned, changed_files, checked, work_dir, printed>>
cleanup_vars == <<work_dir, printed>>

NoResults == [unset |-> TRUE]
NoOutcome == [raised |-> FALSE, value |-> NoResults, ext |-> <<>>]
NoEnv == [unset |-> TRUE]

\* ------------------------------------------------ inputs of the task bodies
\* the diff of scenario A: one hunk adding the line "foo()<TAB>"
TabDiff ==
    FILE_HEADER \o <<64, 64, 32, 45, 48, 44, 48, 32, 43, 49, 32, 64, 64, 10,
                     43, 102, 111, 111, 40, 41, 9, 10>>
CleanDiff == Render(<<[k |-> "hunk", gap |-> 1], [k |-> "add", c |-> Clean]>>)

\* "f.c", "g.py", "README.md"
ChangedCases ==
    {<<>>,
     <<[path |-> <<102, 46, 99>>, isfile |-> TRUE, diff |-> TabDiff]>>,
     <<[path |-> <<103, 46, 112, 121>>, isfile |-> FALSE, diff |-> CleanDiff],
       [path |-> <<82, 69, 65, 68, 77, 69, 46, 109, 100>>, isfile |-> TRUE, diff |-> TabDiff]>>}

Envs ==
    [clone_code : ExitCodes, clone_left : BOOLEAN, fetch_code : ExitCodes,
     changed : ChangedCases, names_ok : BOOLEAN, diffs_ok : BOOLEAN]

\* the attachments an overriding task body may return
Attachments ==
    {[filename |-> "report.html", contents |-> "<html>", link_name |-> "Report"],
     [filename |-> "build_log.txt", contents |-> "log"],
     [filename |-> "doc.html", contents |-> "<p>", link_name |-> "Doc"]}

AttachmentLists == UNION {[1..n -> Attachments] : n \in 0..MaxAttachments}

\* Task.run is overridden by the task classes; what an override may return
OverrideResults ==
    [success : BOOLEAN] \cup [success : BOOLEAN, attachments : AttachmentLists]

\* --------------------------------------------------------------- the store
\* database.save(doc): the store keeps doc under the next version token
StoreSave(doc) == Put(doc, "_rev", store._rev + 1)

\* database.put_attachment(doc, contents, filename=filename)
StorePutAttachment(filename) ==
    LET stored == IF "_attachments" \in DOMAIN store THEN store._attachments ELSE {}
    IN Put(Put(store, "_attachments", stored \cup {filename}), "_rev", store._rev + 1)

\* the entries of oplog
SaveOp(doc) == [op |-> "save", doc |-> doc]
PutOp(filename) == [op |-> "put_attachment", filename |-> filename]
GetOp == [op |-> "get"]

\* ------------------------------------------------------------ Task.__init__
InitTask ==
    /\ task \in {"Task", "CharCheck", "Override"}
    /\ \E kwargs \in KwargsSet :
          /\ task # "CharCheck" => kwargs = MkKwargs("sha1", "git://fork", "master", "git://base")
          /\ store = NewDocument(kwargs)
    /\ document = store
    /\ results = NoResults
    /\ outcome = NoOutcome
    /\ env = NoEnv
    /\ target_exists = FALSE
    /\ pc = "new"
    /\ att_i = 1
    /\ clock = 1
    /\ calls = 0
    /\ oplog = <<>>
    /\ items = <<>>
    /\ cpc = "off"
    /\ records = <<>>
    /\ errors = <<>>
    /\ critical_chars = CRITICAL_CHARS
    /\ returned = <<>>
    /\ changed_files = <<>>
    /\ checked = NoOutcome
    /\ work_dir = "allocated"
    /\ printed = <<>>

\* ------------------------------------------------------------- Task.start
\* document['started'], document['node'] as start sets them
started_document(doc, now) == Put(Put(doc, "started", now), "node", "worker.host")

\* start(), to database.save: the first step of an execution (task())
start_save ==
    /\ pc \in {"new", "done"}
    /\ calls < MaxCalls
    /\ store' = StoreSave(started_document(document, clock))
    /\ document' = started_document(document, clock)
    /\ clock' = clock + 1
    /\ oplog' = <<SaveOp(store')>>
    /\ results' = NoResults
    /\ outcome' = NoOutcome
    /\ env' = NoEnv
    /\ att_i' = 1
    /\ pc' = "start_saved"
    /\ UNCHANGED <<task, target_exists, calls>>
    /\ UNCHANGED check_vars
    /\ UNCHANGED cleanup_vars

\* start(): self.document = self.database[self.document.id]
start_reread ==
    /\ pc = "start_saved"
    /\ document' = store
    /\ oplog' = Append(oplog, GetOp)
    /\ pc' = "run"
    /\ UNCHANGED <<task, store, results, outcome, env, target_exists, att_i, clock, calls>>
    /\ UNCHANGED check_vars
    /\ UNCHANGED cleanup_vars

\* ----------------------------------------------------- Task.__call__: run
\* the results __call__ hands to finish for the outcome of run
call_results(out) == IF out.raised THEN unhandled(out.value.exception) ELSE out.value

\* the try block of __call__ with the run of the class Task itself
run_Task ==
    /\ pc = "run"
    /\ task = "Task"
    /\ outcome' = Task_run
    /\ results' = call_results(outcome')
    /\ pc' = "finish"
    /\ UNCHANGED <<task, store, document, env, target_exists, att_i, clock, calls, oplog>>
    /\ UNCHANGED check_vars
    /\ UNCHANGED cleanup_vars

\* the try block of __call__ with CharCheck.run
run_CharCheck ==
    /\ pc = "run"
    /\ task = "CharCheck"
    /\ \E e \in Envs :
          /\ outcome' = CharCheck_run(document, target_exists, e.clone_code, e.fetch_code,
                                      e.changed, e.names_ok, e.diffs_ok)
          /\ env' = e
          \* "git clone" leaves the target directory behind when it succeeds, and
          \* may when the checkout after it fails
          /\ target_exists' =
                IF outcome'.ext # <<>> /\ outcome'.ext[1] = "git clone"
                THEN (e.clone_code = 0 \/ e.clone_left)
                ELSE target_exists
    /\ results' = call_results(outcome')
    /\ pc' = "finish"
    /\ UNCHANGED <<task, store, document, att_i, clock, calls, oplog>>
    /\ UNCHANGED check_vars
    /\ UNCHANGED cleanup_vars

\* the try block of __call__ with the run of another task class: it returns
\* a results dict or raises
run_Override ==
    /\ pc = "run"
    /\ task = "Override"
    /\ \/ \E r \in OverrideResults : outcome' = Return(r, <<>>)
       \/ outcome' = Raise("boom", <<>>)
    /\ results' = call_results(outcome')
    /\ pc' = "finish"
    /\ UNCHANGED <<task, store, document, env, target_exists, att_i, clock, calls, oplog>>
    /\ UNCHANGED check_vars
    /\ UNCHANGED cleanup_vars

\* ------------------------------------------------------------ Task.finish
\* the loop over results['attachments'] that adds the attach_links of the
\* attachments with a link_name, from attachment i on
RECURSIVE with_attach_links(_, _, _)
with_attach_links(res, attachments, i) ==
    IF i > Len(attachments) THEN res
    ELSE IF "link_name" \in DOMAIN attachments[i]
    THEN with_attach_links(
             Put(res, "attach_links",
                 Append(IF "attach_links" \in DOMAIN res THEN res.attach_links ELSE <<>>,
                        [id |-> attachments[i].filename, name |-> attachments[i].link_name])),
             attachments, i + 1)
    ELSE with_attach_links(res, attachments, i + 1)

linked_results_keeping_attachments(res) == with_attach_links(res, res.attachments, 1)

\* the results dict after the second "if 'attachments' in results" block:
\* document['results'] is the results object itself, so the links are added
\* to it and 'attachments' is deleted from it
linked_results(res) == Del(with_attach_links(res, res.attachments, 1), "attachments")

completed_document_without_results(doc, res, now) == Put(doc, "completed", now)

\* the document finish saves last
completed_document(doc, res, now) == Put(Put(doc, "results", res), "completed", now)

\* the upload loop: one database.put_attachment
finish_put_attachment ==
    /\ pc = "finish"
    /\ "attachments" \in DOMAIN results
    /\ att_i <= Len(results.attachments)
    /\ store' = StorePutAttachment(results.attachments[att_i].filename)
    /\ oplog' = Append(oplog, PutOp(results.attachments[att_i].filename))
    /\ att_i' = att_i + 1
    /\ UNCHANGED <<task, document, results, outcome, env, target_exists, pc, clock, calls>>
    /\ UNCHANGED check_vars
    /\ UNCHANGED cleanup_vars

finish_reread_before_uploads ==
    /\ pc = "finish"
    /\ "attachments" \in DOMAIN results
    /\ document' = store
    /\ oplog' = Append(oplog, GetOp)
    /\ pc' = "finish_links"
    /\ UNCHANGED <<task, store, results, outcome, env, target_exists, att_i, clock, calls>>
    /\ UNCHANGED check_vars
    /\ UNCHANGED cleanup_vars

\* after the upload loop: self.document = self.database[self.document.id]
finish_reread_attachments ==
    /\ pc = "finish"
    /\ "attachments" \in DOMAIN results
    /\ att_i > Len(results.attachments)
    /\ document' = store
    /\ oplog' = Append(oplog, GetOp)
    /\ pc' = "finish_links"
    /\ UNCHANGED <<task, store, results, outcome, env, target_exists, att_i, clock, calls>>
    /\ UNCHANGED check_vars
    /\ UNCHANGED cleanup_vars

finish_links_unsaved ==
    /\ pc = "finish_links"
    /\ results' = linked_results(results)
    /\ document' = Put(document, "results", results')
    /\ pc' = "finish_saved"
    /\ UNCHANGED <<task, store, outcome, env, target_exists, att_i, clock, calls, oplog>>
    /\ UNCHANGED check_vars
    /\ UNCHANGED cleanup_vars

\* the second attachments block, to its database.save
finish_save_links ==
    /\ pc = "finish_links"
    /\ results' = linked_results(results)
    /\ document' = Put(document, "results", results')
    /\ store' = StoreSave(document')
    /\ oplog' = Append(oplog, SaveOp(store'))
    /\ pc' = "finish_saved"
    /\ UNCHANGED <<task, outcome, env, target_exists, att_i, clock, calls>>
    /\ UNCHANGED check_vars
    /\ UNCHANGED cleanup_vars

finish_without_reread_links ==
    /\ pc = "finish_saved"
    /\ pc' = "finish_last"
    /\ UNCHANGED <<task, store, document, results, outcome, env, target_exists, att_i,
                   clock, calls, oplog>>
    /\ UNCHANGED check_vars
    /\ UNCHANGED cleanup_vars

\* the second attachments block: self.document = self.database[...]
finish_reread_links ==
    /\ pc = "finish_saved"
    /\ document' = store
    /\ oplog' = Append(oplog, GetOp)
    /\ pc' = "finish_last"
    /\ UNCHANGED <<task, store, results, outcome, env, target_exists, att_i, clock, calls>>
    /\ UNCHANGED check_vars
    /\ UNCHANGED cleanup_vars

\* the end of finish: results and completed are set and saved; task() returns
finish_save_completed ==
    /\ \/ pc = "finish_last"
       \/ pc = "finish" /\ "attachments" \notin DOMAIN results
    /\ document' = completed_document(document, results, clock)
    /\ store' = StoreSave(document')
    /\ oplog' = Append(oplog, SaveOp(store'))
    /\ clock' = clock + 1
    /\ calls' = calls + 1
    /\ pc' = "done"
    /\ UNCHANGED <<task, results, outcome, env, target_exists, att_i>>
    /\ UNCHANGED check_vars
    /\ UNCHANGED cleanup_vars

Next ==
    \/ start_save
    \/ start_reread
    \/ run_Task
    \/ run_CharCheck
    \/ run_Override
    \/ finish_put_attachment
    \/ finish_reread_attachments
    \/ finish_save_links
    \/ finish_reread_links
    \/ finish_save_completed

Spec == InitTask /\ [][Next]_vars

\* ------------------------------------------- store operations that fail
\* __call__ calls self.start() before its try block and self.finish(results)
\* after it: an exception of a store operation in either is handled nowhere
\* and leaves __call__.  pc = "thrown": the exception reached the caller.

\* start(): database.save or the re-read raises
start_raises ==
    /\ \/ /\ pc \in {"new", "done"}
          /\ calls < MaxCalls
          /\ document' = started_document(document, clock)
          /\ clock' = clock + 1
          /\ oplog' = <<>>
          /\ results' = NoResults
          /\ outcome' = NoOutcome
          /\ env' = NoEnv
          /\ att_i' = 1
       \/ /\ pc = "start_saved"
          /\ UNCHANGED <<document, clock, oplog, results, outcome, env, att_i>>
    /\ pc' = "thrown"
    /\ UNCHANGED <<task, store, target_exists, calls>>
    /\ UNCHANGED check_vars
    /\ UNCHANGED cleanup_vars

\* finish(results): put_attachment, a re-read or a save raises
finish_raises ==
    /\ \/ /\ pc = "finish"
          /\ "attachments" \in DOMAIN results
          /\ UNCHANGED <<document, results, clock>>
       \/ /\ pc = "finish_links"
          /\ results' = linked_results(results)
          /\ document' = Put(document, "results", results')
          /\ UNCHANGED clock
       \/ /\ pc = "finish_saved"
          /\ UNCHANGED <<document, results, clock>>
       \/ /\ \/ pc = "finish_last"
             \/ pc = "finish" /\ "attachments" \notin DOMAIN results
          /\ document' = completed_document(document, results, clock)
          /\ clock' = clock + 1
          /\ UNCHANGED results
    /\ pc' = "thrown"
    /\ UNCHANGED <<task, store, outcome, env, target_exists, att_i, calls, oplog>>
    /\ UNCHANGED check_vars
    /\ UNCHANGED cleanup_vars

NextStoreFaults ==
    \/ start_save
    \/ start_reread
    \/ run_Task
    \/ run_CharCheck
    \/ run_Override
    \/ finish_put_attachment
    \/ finish_reread_attachments
    \/ finish_save_links
    \/ finish_reread_links
    \/ finish_save_completed
    \/ start_raises
    \/ finish_raises

SpecStoreFaults == InitTask /\ [][NextStoreFaults]_vars

\* ------------------------------------------------------------ Task.__del__
del_raising(rmtree_ok) ==
    IF rmtree_ok
    THEN [work_dir |-> "removed", printed |-> <<>>, raised |-> FALSE]
    ELSE [work_dir |-> "kept", printed |-> <<>>, raised |-> TRUE]

\* __del__: shutil.rmtree(self.work_dir) in a try block whose except clause
\* prints; rmtree_ok: rmtree removes the directory (it raises otherwise)
del_outcome(rmtree_ok) ==
    IF rmtree_ok
    THEN [work_dir |-> "removed", printed |-> <<>>, raised |-> FALSE]
    ELSE [work_dir |-> "kept",
          printed |-> <<"Task.__del__: Error removing temporary working directory">>,
          raised |-> FALSE]

\* The Task object is finalized: no call of it is under way (task() has
\* returned or raised, or the object was never called) and its last reference
\* is gone.  pc = "finalized": __del__ has returned; "del_raised": an
\* exception left __del__.
del_Task ==
    /\ pc \in {"new", "done", "thrown"}
    /\ \E rmtree_ok \in BOOLEAN :
          LET out == del_outcome(rmtree_ok)
          IN /\ work_dir' = out.work_dir
             /\ printed' = printed \o out.printed
             /\ pc' = IF out.raised THEN "del_raised" ELSE "finalized"
    /\ UNCHANGED <<task, store, document, results, outcome, env, target_exists, att_i,
                   clock, calls, oplog>>
    /\ UNCHANGED check_vars

\* a Task whose body is Task.run itself or an overriding run that returns a
\* result or raises: the lifecycle is that of every task class
InitCleanup == InitTask /\ task \in {"Task", "Override"}

NextCleanup ==
    \/ start_save
    \/ start_reread
    \/ run_Task
    \/ run_Override
    \/ finish_put_attachment
    \/ finish_reread_attachments
    \/ finish_save_links
    \/ finish_reread_links
    \/ finish_save_completed
    \/ start_raises
    \/ finish_raises
    \/ del_Task

\* Every step of a call returns or raises (no external command hangs), and
\* the interpreter finalizes the Task object once no call of it is under way
\* and nothing refers to it any more.
\* Each of these steps changes pc or att_i.
progress == <<pc, att_i>>

SpecCleanup ==
    InitCleanup /\ [][NextCleanup]_vars /\ WF_progress(NextStoreFaults) /\ WF_progress(del_Task)

\* ------------------------------------------------------- check_file alone
\* check_file is a function of the diff text: the diffs are built item by
\* item and check_file is applied to the text of each complete one.
InitCheck ==
    /\ task = "CharCheck"
    /\ store = NewDocument(MkKwargs("sha1", "git://fork", "master", "git://base"))
    /\ document = store
    /\ results = NoResults
    /\ outcome = NoOutcome
    /\ env = NoEnv
    /\ target_exists = FALSE
    /\ pc = "off"
    /\ att_i = 1
    /\ clock = 1
    /\ calls = 0
    /\ oplog = <<>>
    /\ items = <<>>
    /\ cpc = "build"
    /\ records = <<>>
    /\ errors = <<>>
    /\ critical_chars = CRITICAL_CHARS
    /\ returned = <<>>
    /\ changed_files = <<>>
    /\ checked = NoOutcome
    /\ work_dir = "allocated"
    /\ printed = <<>>

\* git prints one more header or line of the diff
append_item ==
    /\ cpc = "build"
    /\ Len(items) < MaxItems
    /\ \E item \in Items :
          /\ MayFollow(items, item)
          /\ items' = Append(items, item)
    /\ UNCHANGED <<cpc, records, errors, critical_chars, returned, changed_files, checked>>
    /\ UNCHANGED task_vars
    /\ UNCHANGED cleanup_vars

\* check_file(diff) on the text of the diff
call_check_file ==
    /\ cpc = "build"
    /\ Complete(items)
    /\ records' = checked_lines(Render(items))
    /\ errors' = check_file(Render(items))
    /\ critical_chars' = critical_chars_after(critical_chars, errors')
    /\ cpc' = "checked"
    /\ UNCHANGED <<items, returned, changed_files, checked>>
    /\ UNCHANGED task_vars
    /\ UNCHANGED cleanup_vars

NextCheck == append_item \/ call_check_file

SpecCheck == InitCheck /\ [][NextCheck]_vars

\* ------------------------------------------------ check_file, called again
\* the diffs of repeated calls: no diff at all, the diff of scenario A, a
\* diff without violations, and a deleted last line without newline followed
\* by an added line with control characters
CallDiffs ==
    {<<>>, TabDiff, CleanDiff,
     Render(<<[k |-> "hunk", gap |-> 1], [k |-> "del", c |-> <<102, 9>>], [k |-> "noeol"],
              [k |-> "add", c |-> <<1, 127, 1>>]>>)}

InitCalls ==
    /\ task = "CharCheck"
    /\ store = NewDocument(MkKwargs("sha1", "git://fork", "master", "git://base"))
    /\ document = store
    /\ results = NoResults
    /\ outcome = NoOutcome
    /\ env = NoEnv
    /\ target_exists = FALSE
    /\ pc = "off"
    /\ att_i = 1
    /\ clock = 1
    /\ calls = 0
    /\ oplog = <<>>
    /\ items = <<>>
    /\ cpc = "calls"
    /\ records = <<>>
    /\ errors = <<>>
    /\ critical_chars = CRITICAL_CHARS
    /\ returned = <<>>
    /\ changed_files = <<>>
    /\ checked = NoOutcome
    /\ work_dir = "allocated"
    /\ printed = <<>>

\* one more call check_file(diff), on any of the diffs
call_check_file_again ==
    /\ cpc = "calls"
    /\ Len(returned) < MaxChecks
    /\ \E diff \in CallDiffs :
          /\ records' = checked_lines(diff)
          /\ errors' = check_file(diff)
          /\ returned' = Append(returned, [diff |-> diff, errors |-> errors'])
    /\ critical_chars' = critical_chars_after(critical_chars, errors')
    /\ UNCHANGED <<items, cpc, changed_files, checked>>
    /\ UNCHANGED task_vars
    /\ UNCHANGED cleanup_vars

NextCalls == call_check_file_again

SpecCalls == InitCalls /\ [][NextCalls]_vars

\* ------------------------------------------- check_changed_files alone
\* "f.c", "g.py", "a.cc", "x.hh", "m.h", "README.md", "a.pyc", "c": the
\* paths git may name, and whether the file is in the working tree
\* (os.path.isfile) before its diff is taken
ChangedPaths ==
    {[path |-> <<102, 46, 99>>, isfile |-> TRUE],
     [path |-> <<103, 46, 112, 121>>, isfile |-> FALSE],
     [path |-> <<97, 46, 99, 99>>, isfile |-> TRUE],
     [path |-> <<120, 46, 104, 104>>, isfile |-> TRUE],
     [path |-> <<109, 46, 104>>, isfile |-> TRUE],
     [path |-> <<82, 69, 65, 68, 77, 69, 46, 109, 100>>, isfile |-> TRUE],
     [path |-> <<97, 46, 112, 121, 99>>, isfile |-> FALSE],
     [path |-> <<99>>, isfile |-> TRUE]}

ChangedFiles ==
    {[path |-> f.path, isfile |-> f.isfile, diff |-> d] :
        f \in ChangedPaths, d \in {TabDiff, CleanDiff}}

InitFiles ==
    /\ task = "CharCheck"
    /\ store = NewDocument(MkKwargs("sha1", "git://fork", "master", "git://base"))
    /\ document = store
    /\ results = NoResults
    /\ outcome = NoOutcome
    /\ env = NoEnv
    /\ target_exists = FALSE
    /\ pc = "off"
    /\ att_i = 1
    /\ clock = 1
    /\ calls = 0
    /\ oplog = <<>>
    /\ items = <<>>
    /\ cpc = "files"
    /\ records = <<>>
    /\ errors = <<>>
    /\ critical_chars = CRITICAL_CHARS
    /\ returned = <<>>
    /\ changed_files = <<>>
    /\ checked = NoOutcome
    /\ work_dir = "allocated"
    /\ printed = <<>>

\* "git diff --name-only" names one more changed file
append_changed_file ==
    /\ cpc = "files"
    /\ Len(changed_files) < MaxFiles
    /\ \E f \in ChangedFiles :
          /\ \A i \in 1..Len(changed_files) : changed_files[i].path # f.path
          /\ changed_files' = Append(changed_files, f)
    /\ UNCHANGED <<items, cpc, records, errors, critical_chars, returned, checked>>
    /\ UNCHANGED task_vars
    /\ UNCHANGED cleanup_vars

\* check_changed_files(sha, repo_dir)
call_check_changed_files ==
    /\ cpc = "files"
    /\ \E names_ok, diffs_ok \in BOOLEAN :
          checked' = check_changed_files(changed_files, names_ok, diffs_ok)
    /\ cpc' = "files_checked"
    /\ UNCHANGED <<items, records, errors, critical_chars, returned, changed_files>>
    /\ UNCHANGED task_vars
    /\ UNCHANGED cleanup_vars

NextFiles == append_changed_file \/ call_check_changed_files

SpecFiles == InitFiles /\ [][NextFiles]_vars

\* ======================================================================
\* Claims
\* ======================================================================
Range_(seq) == {seq[i] : i \in 1..Len(seq)}

\* C1: if run() raises, the exception does not reach the caller: finish is
\* called with {success: False, reason: 'Unhandled exception in task: ' + the
\* exception's text}, and the execution ends with that result and a
\* 'completed' timestamp in the stored job document.
C1_FaultBecomesFailure ==
    outcome.raised =>
        /\ pc \in {"finish", "done"}
        /\ results = [success |-> FALSE,
                      reason |-> "Unhandled exception in task: " \o outcome.value.exception]
        /\ pc = "done" =>
              /\ "results" \in DOMAIN store
              /\ store.results = results
              /\ "completed" \in DOMAIN store
              /\ store.completed = clock - 1

\* a CharCheck run raised after its external steps, and the execution is over
C1_Witness ==
    /\ pc = "done"
    /\ task = "CharCheck"
    /\ outcome.raised
    /\ outcome.ext # <<>>
    /\ store.results.success = FALSE

\* the inputs of a CharCheck job are valid
ValidKwargs(kwargs) ==
    /\ {"sha", "git_url", "base_repo_ref", "base_repo_url"} \subseteq DOMAIN kwargs
    /\ kwargs.base_repo_ref # ""
    /\ kwargs.base_repo_url # ""

\* the violation map of the changed code files, file by file
ViolationMap(changed) ==
    LET code == {i \in 1..Len(changed) : endswith(changed[i].path, CODE_EXTS)}
    IN [path \in {changed[i].path : i \in code} |->
           check_file(changed[CHOOSE i \in code : changed[i].path = path].diff)]

\* C2: a CharCheck job with valid inputs whose clone and fetch return 0 or 1
\* stores a result that carries the per-file violation map, with success true
\* iff every file's list is empty.
C2_ValidJobStoresViolationMap ==
    (/\ task = "CharCheck"
     /\ pc = "done"
     /\ calls = 1
     /\ ValidKwargs(store.kwargs)
     /\ env.clone_code \in {0, 1}
     /\ env.fetch_code \in {0, 1}
     /\ env.names_ok
     /\ env.diffs_ok)
    => /\ "errors" \in DOMAIN store.results
       /\ store.results.errors = ViolationMap(env.changed)
       /\ store.results.success =
             (\A path \in DOMAIN store.results.errors : store.results.errors[path] = <<>>)

\* the job's kwargs have an input error: no sha, no git_url, or exactly one of
\* base_repo_url and base_repo_ref
InputError(kwargs) ==
    \/ "sha" \notin DOMAIN kwargs
    \/ "git_url" \notin DOMAIN kwargs
    \/ ("base_repo_url" \in DOMAIN kwargs) # ("base_repo_ref" \in DOMAIN kwargs)

InputErrorReason(kwargs) ==
    IF "sha" \notin DOMAIN kwargs THEN "missing revision id"
    ELSE IF "git_url" \notin DOMAIN kwargs THEN "missing git url"
    ELSE "incomplete base specification for merge"

\* C3: a CharCheck job with an input error gets {success: False, reason: the
\* matching reason} from run() before any external step, with no violation
\* map.
C3_InputErrorsReturnReason ==
    (/\ task = "CharCheck"
     /\ pc \in {"finish", "done"}
     /\ InputError(store.kwargs))
    => /\ ~outcome.raised
       /\ outcome.value = [success |-> FALSE, reason |-> InputErrorReason(store.kwargs)]
       /\ outcome.ext = <<>>

\* the result of a failed clone or fetch step
StepFailure(code) == [success |-> FALSE, reason |-> "git clone failed", code |-> PyStr(code)]

\* C4: a clone or fetch whose exit code is neither 0 nor 1 ends CharCheck.run
\* with {success: False, reason: 'git clone failed', code: str(code)}, no later
\* step and no violation map; exit codes 0 and 1 let the task go on to the
\* next step.
C4_StepFailureShortCircuits ==
    (task = "CharCheck" /\ pc \in {"finish", "done"}) =>
        LET ext == outcome.ext
            cloned == ext # <<>> /\ ext[1] = "git clone"
            fetched == "git fetch" \in Range_(ext)
        IN /\ (cloned /\ env.clone_code \notin {0, 1}) =>
                 /\ ~outcome.raised
                 /\ outcome.value = StepFailure(env.clone_code)
                 /\ ext = <<"git clone">>
           /\ (fetched /\ env.fetch_code \notin {0, 1}) =>
                 /\ ~outcome.raised
                 /\ outcome.value = StepFailure(env.fetch_code)
                 /\ ext[Len(ext)] = "git fetch"
           /\ (cloned /\ env.clone_code \in {0, 1}) => fetched
           /\ (fetched /\ env.fetch_code \in {0, 1}) => "git diff --name-only" \in Range_(ext)

\* the clone command ended with exit code 2
C4_Witness ==
    /\ task = "CharCheck"
    /\ pc = "done"
    /\ outcome.ext = <<"git clone">>
    /\ store.results = [success |-> FALSE, reason |-> "git clone failed", code |-> "2"]

\* the diff is one "git diff -U0" prints: it has no context lines
NoContext(d) == \A i \in 1..Len(d) : d[i].k # "ctx"

\* every hunk header of the diff is well-formed
WellFormedHeaders(d) == \A i \in 1..Len(d) : d[i].k # "badhunk"

\* C5: for a well-formed unified diff, the line number check_file attaches to
\* each added line (any "+" line that is not the "+++" file header, whatever
\* its content) is the line's number in the new file as the hunk headers
\* declare it, and the numbers rise strictly.
C5_AddedLinesGetNewFileNumbers ==
    (cpc = "checked" /\ NoContext(items) /\ WellFormedHeaders(items)) =>
        /\ Len(records) = Len(Added(items))
        /\ \A i \in 1..Len(records) : records[i].line_number = Added(items)[i].line_number
        /\ \A i \in 1..(Len(records) - 1) : records[i].line_number < records[i + 1].line_number

\* the forbidden control characters: 0x00-0x09, 0x0B-0x1F, 0x7F
Forbidden == (0..9) \cup (11..31) \cup {127}

\* the errors of the forbidden-character rule among check_file's errors
CharErrors == {e \in 1..Len(errors) : errors[e].rule = "copies of char"}

\* the pairs of an added line of the diff and a forbidden character in it
ForbiddenPairs ==
    {p \in (1..Len(Added(items))) \X Forbidden : count(Added(items)[p[1]].line, p[2]) > 0}

\* no added line of the diff has content that starts with "++"
NoPlusPlusContent(d) ==
    \A i \in 1..Len(d) : d[i].k = "add" => Prefix(d[i].c, 2) # <<PLUS, PLUS>>

\* C6: for every added line and every forbidden control character in its
\* content, check_file emits exactly one violation for the pair, with the
\* character's hexadecimal code and its count on the line; none goes
\* unreported, and 0x0A is never reported.
C6_EveryForbiddenCharReported ==
    (cpc = "checked" /\ NoPlusPlusContent(items)) =>
        /\ Cardinality(CharErrors) = Cardinality(ForbiddenPairs)
        /\ \A p \in ForbiddenPairs :
              \E e \in CharErrors :
                 /\ errors[e].char = hex(p[2])
                 /\ errors[e].count = count(Added(items)[p[1]].line, p[2])
        /\ \A e \in CharErrors : errors[e].char # "0xa"

\* C7: every violation check_file emits is caused by an added line: deleted
\* lines, context lines, hunk headers and file headers never produce one, and
\* neither does a missing EOF newline that is only on the old side.
C7_ViolationsOnlyFromAddedLines ==
    cpc = "checked" =>
        \A e \in 1..Len(errors) :
            IF errors[e].rule = "No EOF newline"
            THEN \/ \E i \in 2..Len(items) : items[i].k = "noeol" /\ items[i - 1].k = "add"
                 \/ \E i \in 1..Len(items) :
                       items[i].k = "add" /\ Contains(items[i].c, EOF_MARKER)
            ELSE \E j \in 1..Len(Added(items)) :
                    rstrip(errors[e].line) = rstrip(Added(items)[j].line)

IsWrite(entry) == entry.op \in {"save", "put_attachment"}

\* C8 as claimed: between any two consecutive writes of an execution on the
\* job document (database.save or put_attachment) the worker re-reads the
\* document from the store.
C8_RereadBetweenAnyTwoWrites ==
    \A i \in 1..(Len(oplog) - 1) : ~(IsWrite(oplog[i]) /\ IsWrite(oplog[i + 1]))

\* C8, amended: between two consecutive writes of an execution the worker
\* re-reads the document, except between the put_attachment uploads of one
\* finish, which follow each other and are followed by one re-read; the start
\* write is re-read before anything else is done.
C8_RereadBetweenWritesButUploads ==
    /\ \A i \in 1..(Len(oplog) - 1) :
          (IsWrite(oplog[i]) /\ IsWrite(oplog[i + 1])) =>
              (oplog[i].op = "put_attachment" /\ oplog[i + 1].op = "put_attachment")
    /\ \A i \in 1..(Len(oplog) - 1) :
          (oplog[i].op = "put_attachment" /\ oplog[i + 1].op # "put_attachment") =>
              oplog[i + 1].op = "get"
    /\ Len(oplog) >= 1 => oplog[1].op = "save"
    /\ Len(oplog) >= 2 => oplog[2].op = "get"

\* an execution with two uploads, a links save and the last save is over
C8_Witness ==
    /\ pc = "done"
    /\ Len(oplog) = 8
    /\ oplog[3].op = "put_attachment"
    /\ oplog[4].op = "put_attachment"
    /\ oplog[8].op = "save"

StartedOf(doc) == IF "started" \in DOMAIN doc THEN doc.started ELSE 0

\* the stored document has 'completed' only with 'results', and from the
\* start write on it has the 'started' of this execution
C9_StoredDocument ==
    /\ "completed" \in DOMAIN store => "results" \in DOMAIN store
    /\ pc \notin {"new", "off"} =>
          /\ "started" \in DOMAIN store
          /\ oplog[1].op = "save"
          /\ store.started = oplog[1].doc.started

\* a step that changes the stored 'started' is the start write of an
\* execution, which comes before the task body
C9_StartedWrittenByStart ==
    StartedOf(store') # StartedOf(store) =>
        /\ pc \in {"new", "done"}
        /\ pc' = "start_saved"
        /\ outcome' = NoOutcome

\* C9: in every state of the stored job document, 'completed' is there only
\* if 'results' is, and 'started' is written exactly once per execution,
\* before the task body runs.
C9_CompletedOnlyWithResults == [](C9_StoredDocument) /\ [][C9_StartedWrittenByStart]_vars

\* after the links save of a first execution the stored document has
\* 'started' and 'results' and no 'completed' yet
C9_Witness ==
    /\ pc = "finish_saved"
    /\ calls = 0
    /\ "started" \in DOMAIN store
    /\ "results" \in DOMAIN store
    /\ "completed" \notin DOMAIN store

\* the attach_links of a stored results dict (none without the key)
LinksOf(res) == IF "attach_links" \in DOMAIN res THEN res.attach_links ELSE <<>>

\* the links of the attachments that have a link_name, in their order
RECURSIVE ExpectedLinks(_)
ExpectedLinks(attachments) ==
    IF attachments = <<>> THEN <<>>
    ELSE (IF "link_name" \in DOMAIN Head(attachments)
          THEN <<[id |-> Head(attachments).filename, name |-> Head(attachments).link_name]>>
          ELSE <<>>) \o ExpectedLinks(Tail(attachments))

C11_NoFailureThrown ==
    pc \in {"done", "thrown"} =>
        /\ pc # "thrown"
        /\ {"results", "completed"} \subseteq DOMAIN store
        /\ store.results = results

\* the result of a second run of CharCheck with a clone target that a first
\* run never left behind
FreshOutcome ==
    CharCheck_run(document, FALSE, env.clone_code, env.fetch_code,
                  env.changed, env.names_ok, env.diffs_ok)

\* the store writes of one complete cycle: 'started' first, 'results' and
\* 'completed' last
C12_CompleteCycle ==
    pc = "done" =>
        /\ oplog # <<>>
        /\ oplog[1].op = "save"
        /\ "started" \in DOMAIN oplog[1].doc
        /\ "completed" \notin DOMAIN oplog[1].doc \/ calls > 1
        /\ oplog[Len(oplog)].op = "save"
        /\ {"results", "completed"} \subseteq DOMAIN oplog[Len(oplog)].doc
        /\ oplog[Len(oplog)].doc.results = results
        /\ oplog[Len(oplog)].doc.started = clock - 2
        /\ oplog[Len(oplog)].doc.completed = clock - 1

\* C12: calling the same Task twice performs two complete start -> run ->
\* finish cycles, and the outcome of the second cycle does not depend on
\* what the first left behind: the second run of CharCheck returns what a
\* run in a fresh working directory returns for the same job and the same
\* outcomes of the external commands.
C12_CyclesAreIndependent ==
    /\ C12_CompleteCycle
    /\ task = "CharCheck" /\ env # NoEnv =>
          IF outcome.raised = FreshOutcome.raised
          THEN outcome.value = FreshOutcome.value /\ outcome.ext = FreshOutcome.ext
          ELSE FALSE

\* the occurrences of the marker in the diff text
Markers(diff) ==
    {i \in 1..Len(diff) :
        i + Len(EOF_MARKER) - 1 <= Len(diff)
        /\ SubSeq(diff, i, i + Len(EOF_MARKER) - 1) = EOF_MARKER}

\* the missing-EOF-newline violations of a list of errors
EofErrors(errs) == {i \in 1..Len(errs) : errs[i].rule = "No EOF newline"}

\* C13: check_file returns exactly one missing-EOF-newline violation for a
\* diff that contains the marker "\ No newline at end of file", however often
\* the marker occurs and however many lines are added, and none for a diff
\* without the marker (the empty diff included).
C13_OneEofViolationIffMarker ==
    cpc = "checked" =>
        Cardinality(EofErrors(errors)) = IF Markers(Render(items)) # {} THEN 1 ELSE 0

\* the marker occurs twice in a diff that adds lines, and the diff was checked
C13_Witness ==
    /\ cpc = "checked"
    /\ Cardinality(Markers(Render(items))) >= 2
    /\ \E i \in 1..Len(items) : items[i].k = "add"
    /\ Cardinality(EofErrors(errors)) = 1

\* the content has exactly one tab and no other forbidden character
OneTabOnly(c) ==
    /\ count(c, TAB) = 1
    /\ \A i \in 1..Len(c) : c[i] # TAB => c[i] \notin Forbidden

\* the forbidden-character violations check_file returned for the diff line
CharErrorsOf(line) ==
    {i \in 1..Len(errors) : errors[i].rule = "copies of char" /\ errors[i].line = line}

\* the added lines of the diff with content c
AddedWith(c) == {i \in 1..Len(items) : items[i].k = "add" /\ items[i].c = c}

\* C14: for every added line with exactly one tab and no other forbidden
\* character, wherever the tab is, check_file returns exactly one
\* forbidden-character violation for the line, and it carries the new-tab
\* annotation.
C14_OneTabOneViolation ==
    cpc = "checked" =>
        \A c \in AddContents :
            OneTabOnly(c) =>
                /\ Cardinality(CharErrorsOf(<<PLUS>> \o c)) = Cardinality(AddedWith(c))
                /\ \A i \in CharErrorsOf(<<PLUS>> \o c) :
                      errors[i].char = "0x9" /\ errors[i].count = 1 /\ errors[i].new_tabs

\* the same for the added lines whose content does not start with "++"
C14_ExceptPlusPlus ==
    cpc = "checked" =>
        \A c \in AddContents :
            OneTabOnly(c) /\ Prefix(c, 2) # <<PLUS, PLUS>> =>
                /\ Cardinality(CharErrorsOf(<<PLUS>> \o c)) = Cardinality(AddedWith(c))
                /\ \A i \in CharErrorsOf(<<PLUS>> \o c) :
                      errors[i].char = "0x9" /\ errors[i].count = 1 /\ errors[i].new_tabs

\* the content of an added line has no trailing whitespace and no forbidden
\* character
CleanContent(c) ==
    /\ c = <<>> \/ c[Len(c)] \notin WHITESPACE
    /\ \A i \in 1..Len(c) : c[i] \notin Forbidden

\* C15: for a diff in which no added line has trailing whitespace or a
\* forbidden character and the marker is absent, check_file returns the
\* empty list, whatever the hunk headers and deleted lines of the diff
\* (stated for the diffs without context lines, as "git diff -U0" prints them).
C15_CleanDiffNoViolation ==
    cpc = "checked"
    /\ NoContext(items)
    /\ Markers(Render(items)) = {}
    /\ (\A i \in 1..Len(items) : items[i].k = "add" => CleanContent(items[i].c))
    => errors = <<>>

\* the same for the diffs whose old-file lines have no carriage return
C15_ExceptOldCarriageReturn ==
    cpc = "checked"
    /\ Markers(Render(items)) = {}
    /\ (\A i \in 1..Len(items) : items[i].k = "add" => CleanContent(items[i].c))
    /\ (\A i \in 1..Len(items) : items[i].k \in {"del", "ctx"} => count(items[i].c, CR) = 0)
    => errors = <<>>

CodeExtensions ==
    {<<46, 112, 121>>, <<46, 99, 99>>, <<46, 104, 104>>, <<46, 104>>, <<46, 99>>}

\* the path ends with a recognized code extension
IsCodePath(path) ==
    \E ext \in CodeExtensions : \E n \in 0..Len(path) : SubSeq(path, 1, n) \o ext = path

\* the changed files that are code files
CodeFiles == {i \in 1..Len(changed_files) : IsCodePath(changed_files[i].path)}

\* how often the command is in the list of commands
Times(ext, command) == Cardinality({i \in 1..Len(ext) : ext[i] = command})

\* C17: check_changed_files checks exactly the changed files whose path ends
\* with .py, .cc, .hh, .h or .c: the error map has one key per such file, with
\* the errors of its diff, and no other key; a diff is taken (and a missing
\* file checked out) for these files only; and the success flag is true iff
\* every list of the map is empty.
C17_ExactlyCodeFilesChecked ==
    cpc = "files_checked" /\ ~checked.raised =>
        LET errs == checked.value.errors
        IN /\ DOMAIN errs = {changed_files[i].path : i \in CodeFiles}
           /\ \A i \in CodeFiles : errs[changed_files[i].path] = check_file(changed_files[i].diff)
           /\ Times(checked.ext, "git diff") = Cardinality(CodeFiles)
           /\ Times(checked.ext, "git checkout")
                 = Cardinality({i \in CodeFiles : ~changed_files[i].isfile})
           /\ checked.value.success = (\A path \in DOMAIN errs : errs[path] = <<>>)

\* a code file with a violation and a file that is no code file were changed,
\* and check_changed_files returned
C17_Witness ==
    /\ cpc = "files_checked"
    /\ ~checked.raised
    /\ Len(changed_files) = 2
    /\ Cardinality(CodeFiles) = 1
    /\ \E i \in 1..2 : ~IsCodePath(changed_files[i].path) /\ changed_files[i].diff = TabDiff
    /\ checked.value.success = FALSE

\* the attachments of the result run returned in this execution
RunAttachments ==
    IF outcome.raised THEN <<>>
    ELSE IF "attachments" \in DOMAIN outcome.value THEN outcome.value.attachments
    ELSE <<>>

\* run returned a result with an 'attachments' key
HasAttachments ==
    IF outcome.raised THEN FALSE ELSE "attachments" \in DOMAIN outcome.value

\* the store operations of one upload per attachment, in list order
Uploads(attachments) == [i \in 1..Len(attachments) |-> PutOp(attachments[i].filename)]

\* the store writes of this execution after the start write that save a document
FinishSaves == {j \in 3..Len(oplog) : oplog[j].op = "save"}

\* C18: in finish(results) with attachments present, every attachment is
\* uploaded with put_attachment, in list order, then the document is re-read,
\* and only then a 'results' payload is saved; the save that sets 'completed'
\* is the last store write of the execution; so the store never holds the
\* result of this execution, or its 'completed', with one of its attachments
\* missing.
C18_UploadsBeforeResults ==
    HasAttachments =>
        /\ FinishSaves # {} =>
              LET j == Least(FinishSaves)
              IN SubSeq(oplog, 1, j) =
                     <<oplog[1], GetOp>> \o Uploads(RunAttachments) \o <<GetOp, oplog[j]>>
        /\ \A j \in FinishSaves :
              /\ "results" \in DOMAIN oplog[j].doc
              /\ "completed" \in DOMAIN oplog[j].doc /\ oplog[j].doc.completed >= oplog[1].doc.started
                    => j = Len(oplog) /\ pc = "done"
        /\ pc = "done" =>
              /\ oplog[Len(oplog)].op = "save"
              /\ oplog[Len(oplog)].doc.completed >= oplog[1].doc.started
        /\ ("results" \in DOMAIN store /\ pc \in {"finish_saved", "finish_last", "done"}) =>
              /\ store.results = results
              /\ \A i \in 1..Len(RunAttachments) :
                    RunAttachments[i].filename \in store._attachments

\* a result with two attachments was saved, and the execution is over
C18_Witness ==
    /\ pc = "done"
    /\ HasAttachments
    /\ Len(RunAttachments) = 2
    /\ RunAttachments[1].filename # RunAttachments[2].filename
    /\ Len(oplog) = 8
    /\ "completed" \in DOMAIN store

\* the kinds of the store operations of this execution that write, in order
RECURSIVE WritesFrom(_)
WritesFrom(i) ==
    IF i > Len(oplog) THEN <<>>
    ELSE (IF oplog[i].op \in {"save", "put_attachment"} THEN <<oplog[i].op>> ELSE <<>>)
         \o WritesFrom(i + 1)

\* n times "put_attachment"
UploadKinds(n) == [i \in 1..n |-> "put_attachment"]

\* the job document is in the store, and no operation of the worker is a delete
NeverDeleted ==
    /\ store._id = "job"
    /\ \A i \in 1..Len(oplog) : oplog[i].op \in {"save", "put_attachment", "get"}

\* C19 as stated: in one execution the worker writes the job document exactly
\* twice, the start write and then the finish write, whether or not the
\* result has attachments, and it never deletes the document.
C19_ExactlyTwoWrites ==
    /\ NeverDeleted
    /\ pc = "done" => WritesFrom(1) = <<"save", "save">>

\* C19: in one execution the worker writes the job document in the start
\* save and then in finish: finish is one save (results and completed) for a
\* result without an 'attachments' key; for a result with the key it is one
\* put_attachment per attachment, a save of the results with the links, and
\* then the save of results and completed.  The worker never deletes the
\* document.
C19_TwoWritesUnlessAttachments ==
    /\ NeverDeleted
    /\ pc = "done" =>
          WritesFrom(1) =
              IF HasAttachments
              THEN <<"save">> \o UploadKinds(Len(RunAttachments)) \o <<"save", "save">>
              ELSE <<"save", "save">>

\* the second execution of a task is over, and its result had one attachment
C19_Witness ==
    /\ pc = "done"
    /\ calls = 2
    /\ HasAttachments
    /\ Len(RunAttachments) = 1
    /\ WritesFrom(1) = <<"save", "put_attachment", "save", "save">>
    /\ "_attachments" \in DOMAIN store
    /\ Cardinality(store._attachments) = 1

\* the added lines of items[i..] as check_file is to check them: under the
\* declared new-file number after a well-formed header, under the sentinel
\* and its successors after a malformed one
RECURSIVE ExpectedFrom(_, _, _)
ExpectedFrom(i, new, counter) ==
    IF i > Len(items) THEN <<>>
    ELSE LET item == items[i]
         IN CASE item.k = "hunk" ->
                   ExpectedFrom(i + 1, HunkStart(new, item.gap, i = 1),
                                HunkStart(new, item.gap, i = 1))
              [] item.k = "badhunk" ->
                   ExpectedFrom(i + 1, HunkStart(new, 1, i = 1), UNKNOWN_LINE)
              [] item.k = "add" ->
                   <<[line_number |-> counter, line |-> <<PLUS>> \o item.c]>>
                   \o ExpectedFrom(i + 1, new + 1, counter + 1)
              [] OTHER -> ExpectedFrom(i + 1, new, counter)

\* the diff has a malformed hunk header, and nothing else that is known to
\* upset check_file: no context lines, no carriage return in a line, no added
\* content that starts with "++"
MalformedOnly(d) ==
    /\ ~WellFormedHeaders(d)
    /\ NoContext(d)
    /\ NoPlusPlusContent(d)
    /\ \A i \in 1..Len(d) : IsLine(d[i]) => count(d[i].c, CR) = 0

\* C20: a malformed hunk header (new-file range missing or not a number)
\* does not abort check_file: the counter is set to -999, every added line
\* after it is still checked under all rules, and the next well-formed
\* header sets the counter to its new-file start line, so that the lines
\* after it get their new-file numbers.
C20_MalformedHeaderFallsBack ==
    cpc = "checked" /\ MalformedOnly(items) =>
        /\ records = ExpectedFrom(1, 1, UNKNOWN_LINE)
        /\ errors = eof_error(Render(items)) \o errors_of(ExpectedFrom(1, 1, UNKNOWN_LINE))

\* the same for the malformed headers that have no "+" after the old-file range
C20_ExceptPlusInText ==
    cpc = "checked" /\ MalformedOnly(items)
    /\ (\A i \in 1..Len(items) :
           items[i].k = "badhunk" => items[i].form # "missing, plus in text")
    => /\ records = ExpectedFrom(1, 1, UNKNOWN_LINE)
       /\ errors = eof_error(Render(items)) \o errors_of(ExpectedFrom(1, 1, UNKNOWN_LINE))

\* task() has returned or raised: the exit paths of an execution
Exited == pc \in {"done", "thrown"}

C21_WitnessThrown ==
    /\ pc = "finalized"
    /\ work_dir = "kept"
    /\ calls = 0
    /\ "started" \in DOMAIN document

====
